---- MODULE Spec2Model ----
(***************************************************************************)
(* AllInBank core (src/bank_core.py): the Ledger of buy-ins and cash-outs  *)
(* and the settlement resolver min_cash_flow_settlement.                   *)
(*                                                                         *)
(* Money is a whole number of grid units; one cent (0.01) is UnitsPerCent  *)
(* units, so with UnitsPerCent = 4 a unit is 0.0025 and amounts with more  *)
(* than two decimal places exist.  The tolerance eps = 1e-9 of the code    *)
(* is smaller than one grid unit: for a grid value x, x < -eps is x < 0    *)
(* and x > eps is x > 0.  Arithmetic on the grid is exact; the one place   *)
(* where the binary representation of a float decides the outcome, the     *)
(* rounding of a value that lies exactly half-way between two hundredths,  *)
(* is a choice between both neighbours (round(0.015, 2) is 0.01 and        *)
(* round(0.025, 2) is 0.03 in CPython).                                    *)
(***************************************************************************)
EXTENDS Integers, Sequences, FiniteSets

VARIABLES
    buyins,     \* Ledger.buyins: a function from the names present to units
    cashouts,   \* Ledger.cashouts
    lastCall,   \* the last Ledger call: its operation and arguments
    ret,        \* what the last Ledger call returned: <<>> (None) or <<value>>
    pre,        \* <<buyins, cashouts>> as they were before the last Ledger call
    recorded,   \* history: the sum of all amounts passed to add_buyin
    lastSet,    \* history: per name, <<amount>> of the latest set_cashout, or <<>>
    addedSince, \* history: per name, the add_cashout amounts since then, in order
    nOps,       \* the number of mutating Ledger calls made
    balances,   \* the resolver's argument: <<name, net>> pairs in iteration order
    debtors,    \* the resolver's local lists of <<name, amount>>
    creditors,
    i,          \* cursors (0-based, as in the code)
    j,
    transfers,  \* the list being built, <<debtor, creditor, pay>>
    pc          \* "idle", "start", "loop", "done"

ledgerVars == <<buyins, cashouts, lastCall, ret, pre, recorded, lastSet, addedSince, nOps>>
settleVars == <<balances, debtors, creditors, i, j, transfers, pc>>
vars == <<buyins, cashouts, lastCall, ret, pre, recorded, lastSet, addedSince, nOps,
          balances, debtors, creditors, i, j, transfers, pc>>

(***************************************************************************)
(* Bounds and input sets                                                   *)
(***************************************************************************)
\* grid units per hundredth of a currency unit
UnitsPerCent == 4
\* the resolver's balances range over -MaxUnits..MaxUnits grid units
MaxUnits == 9
\* the number of mutating Ledger calls in a run
MaxOps == 3

Names == {"A", "B", "C"}

\* n whole currency units, in grid units
Whole(n) == n * 100 * UnitsPerCent

\* the balances of the scenario {A: -10, B: -5, C: 15}
ScenarioValues == {Whole(-10), Whole(-5), Whole(15)}

Values == (-MaxUnits .. MaxUnits) \cup ScenarioValues

Orderings(S) ==
    {s \in [1 .. Cardinality(S) -> S] :
        \A a, b \in 1 .. Cardinality(S) : a /= b => s[a] /= s[b]}

\* the dict with keys S inserted in the order p and values v
Mapping(S, p, v) == [k \in 1 .. Cardinality(S) |-> <<p[k], v[p[k]]>>]

(***************************************************************************)
(* Arithmetic helpers                                                      *)
(***************************************************************************)
Min(a, b) == IF a <= b THEN a ELSE b

RECURSIVE SumSeq(_)
SumSeq(s) == IF s = <<>> THEN 0 ELSE s[1] + SumSeq(Tail(s))

RECURSIVE SumOver(_, _)
SumOver(f, S) ==
    IF S = {} THEN 0
    ELSE LET x == CHOOSE y \in S : TRUE IN f[x] + SumOver(f, S \ {x})

\* round(x, 2): the nearest hundredth; an exact half goes to either neighbour
Round2(x) ==
    LET lo == (x \div UnitsPerCent) * UnitsPerCent
        r  == x - lo
    IN  IF r = 0 THEN {x}
        ELSE IF 2 * r < UnitsPerCent THEN {lo}
        ELSE IF 2 * r > UnitsPerCent THEN {lo + UnitsPerCent}
        ELSE {lo, lo + UnitsPerCent}

(***************************************************************************)
(* Ledger                                                                  *)
(***************************************************************************)
\* the names buy-ins and cash-outs are recorded for; "C" is only ever queried
Players == {"A", "B"}

\* the amounts passed in; the Ledger does not check their sign
Amounts == {-1, 2, 5}

\* the lists passed to balances: the caller passes the keys of its player dict
Rosters == UNION {Orderings(S) : S \in SUBSET Names}

NoCall == [op |-> "new", player |-> "", amount |-> 0, roster |-> <<>>]
Call(op, player, amount, roster) ==
    [op |-> op, player |-> player, amount |-> amount, roster |-> roster]

\* lines 17-18: both mappings start empty
LedgerEmpty ==
    /\ buyins = <<>>
    /\ cashouts = <<>>
    /\ lastCall = NoCall
    /\ ret = <<>>
    /\ pre = <<<<>>, <<>>>>
    /\ recorded = 0
    /\ lastSet = [n \in Names |-> <<>>]
    /\ addedSince = [n \in Names |-> <<>>]
    /\ nOps = 0

\* dict.get(player, 0.0)
Get(d, player) == IF player \in DOMAIN d THEN d[player] ELSE 0

\* d[player] = value
Put(d, player, value) ==
    [n \in DOMAIN d \cup {player} |-> IF n = player THEN value ELSE d[n]]

\* sum(d.values())
SumValues(d) == SumOver(d, DOMAIN d)

\* variant: the mapping is rebuilt with the one entry
AddBuyinDropsOthers(b, player, amount) ==
    [n \in {player} |-> (IF player \in DOMAIN b THEN b[player] ELSE 0) + amount]

\* variant: "-" for "+"
AddBuyinSubtracts(b, player, amount) ==
    [n \in DOMAIN b \cup {player} |->
        IF n = player THEN (IF player \in DOMAIN b THEN b[player] ELSE 0) - amount ELSE b[n]]

\* variant: "=" for "+="
AddBuyinOverwrites(b, player, amount) == Put(b, player, amount)

\* line 21: self.buyins[player] = self.buyins.get(player, 0.0) + float(amount)
AddBuyinResult(b, player, amount) == Put(b, player, Get(b, player) + amount)

\* variant: "+=" for "="
SetCashoutAccumulates(c, player, amount) == Put(c, player, Get(c, player) + amount)

\* line 25: self.cashouts[player] = float(amount)
SetCashoutResult(c, player, amount) == Put(c, player, amount)

\* line 29: self.cashouts[player] = self.cashouts.get(player, 0.0) + float(amount)
AddCashoutResult(c, player, amount) == Put(c, player, Get(c, player) + amount)

\* variant: the loop also runs over the keys of both mappings
BalanceKeysWithLedger(all_players) ==
    {all_players[k] : k \in 1 .. Len(all_players)} \cup DOMAIN buyins \cup DOMAIN cashouts

\* line 44: for player in all_players
BalanceKeys(all_players) == {all_players[k] : k \in 1 .. Len(all_players)}

\* lines 45-47: round(cashout - buyin, 2)
BalanceChoices(player) == Round2(Get(cashouts, player) - Get(buyins, player))

\* the dicts the loop of lines 43-48 can build
BalanceResults(all_players) ==
    LET keys == BalanceKeys(all_players)
    IN  {bal \in [keys -> UNION {BalanceChoices(player) : player \in keys}] :
            \A player \in keys : bal[player] \in BalanceChoices(player)}

\* lines 20-21
add_buyin(player, amount) ==
    /\ nOps < MaxOps
    /\ buyins' = AddBuyinResult(buyins, player, amount)
    /\ recorded' = recorded + amount
    /\ lastCall' = Call("add_buyin", player, amount, <<>>)
    /\ ret' = <<>>
    /\ pre' = <<buyins, cashouts>>
    /\ nOps' = nOps + 1
    /\ UNCHANGED <<cashouts, lastSet, addedSince, settleVars>>

\* lines 23-25
set_cashout(player, amount) ==
    /\ nOps < MaxOps
    /\ cashouts' = SetCashoutResult(cashouts, player, amount)
    /\ lastSet' = [lastSet EXCEPT ![player] = <<amount>>]
    /\ addedSince' = [addedSince EXCEPT ![player] = <<>>]
    /\ lastCall' = Call("set_cashout", player, amount, <<>>)
    /\ ret' = <<>>
    /\ pre' = <<buyins, cashouts>>
    /\ nOps' = nOps + 1
    /\ UNCHANGED <<buyins, recorded, settleVars>>

\* lines 27-29
add_cashout(player, amount) ==
    /\ nOps < MaxOps
    /\ cashouts' = AddCashoutResult(cashouts, player, amount)
    /\ addedSince' = [addedSince EXCEPT ![player] = Append(@, amount)]
    /\ lastCall' = Call("add_cashout", player, amount, <<>>)
    /\ ret' = <<>>
    /\ pre' = <<buyins, cashouts>>
    /\ nOps' = nOps + 1
    /\ UNCHANGED <<buyins, recorded, lastSet, settleVars>>

\* lines 31-32
total_buyin ==
    /\ ret' = <<SumValues(buyins)>>
    /\ lastCall' = Call("total_buyin", "", 0, <<>>)
    /\ pre' = <<buyins, cashouts>>
    /\ UNCHANGED <<buyins, cashouts, recorded, lastSet, addedSince, nOps, settleVars>>

\* lines 34-35
total_cashout ==
    /\ ret' = <<SumValues(cashouts)>>
    /\ lastCall' = Call("total_cashout", "", 0, <<>>)
    /\ pre' = <<buyins, cashouts>>
    /\ UNCHANGED <<buyins, cashouts, recorded, lastSet, addedSince, nOps, settleVars>>

\* lines 37-48
Ledger_balances(all_players) ==
    /\ \E bal \in BalanceResults(all_players) : ret' = <<bal>>
    /\ lastCall' = Call("balances", "", 0, all_players)
    /\ pre' = <<buyins, cashouts>>
    /\ UNCHANGED <<buyins, cashouts, recorded, lastSet, addedSince, nOps, settleVars>>

\* a fresh Ledger; the resolver is not called
LedgerInit ==
    /\ LedgerEmpty
    /\ balances = <<>>
    /\ debtors = <<>>
    /\ creditors = <<>>
    /\ i = 0
    /\ j = 0
    /\ transfers = <<>>
    /\ pc = "idle"

LedgerNext ==
    \/ \E player \in Players, amount \in Amounts : add_buyin(player, amount)
    \/ \E player \in Players, amount \in Amounts : set_cashout(player, amount)
    \/ \E player \in Players, amount \in Amounts : add_cashout(player, amount)
    \/ total_buyin
    \/ total_cashout
    \/ \E all_players \in Rosters : Ledger_balances(all_players)

LedgerSpec == LedgerInit /\ [][LedgerNext]_vars

\* the amounts the interface lets through (AllInBank.py: min_value=0.0)
NonNegAmounts == {0} \cup {amount \in Amounts : amount >= 0}

\* the Ledger called with non-negative amounts only
NonNegNext ==
    \/ \E player \in Players, amount \in NonNegAmounts : add_buyin(player, amount)
    \/ \E player \in Players, amount \in NonNegAmounts : set_cashout(player, amount)
    \/ \E player \in Players, amount \in NonNegAmounts : add_cashout(player, amount)
    \/ total_buyin
    \/ total_cashout
    \/ \E all_players \in Rosters : Ledger_balances(all_players)

NonNegSpec == LedgerInit /\ [][NonNegNext]_vars

(***************************************************************************)
(* min_cash_flow_settlement                                                *)
(***************************************************************************)
\* line 65: net < -eps
IsDebtor(net) == net < 0

\* line 67: net > eps
IsCreditor(net) == net > 0

\* list.sort is stable: an element goes after the elements already placed
\* that do not sort after it
InsertAsc(s, x) ==
    LET k == Cardinality({n \in 1 .. Len(s) : s[n][2] <= x[2]})
    IN  SubSeq(s, 1, k) \o <<x>> \o SubSeq(s, k + 1, Len(s))

InsertDesc(s, x) ==
    LET k == Cardinality({n \in 1 .. Len(s) : s[n][2] >= x[2]})
    IN  SubSeq(s, 1, k) \o <<x>> \o SubSeq(s, k + 1, Len(s))

\* variant: a sort that is not stable (an element goes before its equals)
InsertAscBeforeEquals(s, x) ==
    LET k == Cardinality({n \in 1 .. Len(s) : s[n][2] < x[2]})
    IN  SubSeq(s, 1, k) \o <<x>> \o SubSeq(s, k + 1, Len(s))

RECURSIVE SortDebtorsUnstable(_)
SortDebtorsUnstable(s) ==
    IF s = <<>> THEN <<>>
    ELSE InsertAscBeforeEquals(SortDebtorsUnstable(SubSeq(s, 1, Len(s) - 1)), s[Len(s)])

\* line 71: debtors.sort(key=lambda x: x[1])
RECURSIVE SortDebtors(_)
SortDebtors(s) ==
    IF s = <<>> THEN <<>>
    ELSE InsertAsc(SortDebtors(SubSeq(s, 1, Len(s) - 1)), s[Len(s)])

\* line 72: creditors.sort(key=lambda x: x[1], reverse=True)
RECURSIVE SortCreditors(_)
SortCreditors(s) ==
    IF s = <<>> THEN <<>>
    ELSE InsertDesc(SortCreditors(SubSeq(s, 1, Len(s) - 1)), s[Len(s)])

PairIsDebtor(p) == IsDebtor(p[2])
PairIsCreditor(p) == IsCreditor(p[2])

\* lines 60-76: partition, sort, and the initial cursors
Setup ==
    /\ pc = "start"
    /\ debtors' = SortDebtors(SelectSeq(balances, PairIsDebtor))
    /\ creditors' = SortCreditors(SelectSeq(balances, PairIsCreditor))
    /\ i' = 0
    /\ j' = 0
    /\ transfers' = <<>>
    /\ pc' = "loop"
    /\ UNCHANGED <<balances, ledgerVars>>

\* variant: "or" for "and"
LoopCondEither == i < Len(debtors) \/ j < Len(creditors)

\* line 78: while i < len(debtors) and j < len(creditors)
LoopCond == i < Len(debtors) /\ j < Len(creditors)

\* variant: the payment is the whole debt, whatever the creditor is owed
PayChoicesDebtOnly(debtor_amt, creditor_amt) == Round2(-debtor_amt)

\* line 82: pay = round(min(-debtor_amt, creditor_amt), 2)
PayChoices(debtor_amt, creditor_amt) == Round2(Min(-debtor_amt, creditor_amt))

\* variant: ">=" for ">"
EmitsAlways(pay) == pay >= 0

\* line 83: if pay > 0
Emits(pay) == pay > 0

\* lines 79-97: one iteration of the pairing loop
Iterate ==
    /\ pc = "loop"
    /\ LoopCond
    /\ LET debtor_name == debtors[i + 1][1]
           debtor_amt == debtors[i + 1][2]
           creditor_name == creditors[j + 1][1]
           creditor_amt == creditors[j + 1][2]
       IN  \E pay \in PayChoices(debtor_amt, creditor_amt) :
               LET d2 == IF Emits(pay) THEN debtor_amt + pay ELSE debtor_amt
                   c2 == IF Emits(pay) THEN creditor_amt - pay ELSE creditor_amt
               IN  /\ transfers' = IF Emits(pay)
                                     THEN Append(transfers, <<debtor_name, creditor_name, pay>>)
                                     ELSE transfers
                   \* line 89: debtor_amt >= -eps
                   /\ IF d2 >= 0
                         THEN i' = i + 1 /\ debtors' = debtors
                         ELSE i' = i /\ debtors' = [debtors EXCEPT ![i + 1] = <<debtor_name, d2>>]
                   \* line 94: creditor_amt <= eps
                   /\ IF c2 <= 0
                         THEN j' = j + 1 /\ creditors' = creditors
                         ELSE j' = j /\ creditors' = [creditors EXCEPT ![j + 1] = <<creditor_name, c2>>]
    /\ UNCHANGED <<balances, pc, ledgerVars>>

\* line 99: return transfers
Return ==
    /\ pc = "loop"
    /\ ~LoopCond
    /\ pc' = "done"
    /\ UNCHANGED <<balances, debtors, creditors, i, j, transfers, ledgerVars>>

\* a call of min_cash_flow_settlement on any mapping
SettleInit ==
    /\ LedgerEmpty
    /\ \E S \in SUBSET Names : \E p \in Orderings(S) : \E v \in [S -> Values] :
           balances = Mapping(S, p, v)
    /\ debtors = <<>>
    /\ creditors = <<>>
    /\ i = 0
    /\ j = 0
    /\ transfers = <<>>
    /\ pc = "start"

SettleNext == Setup \/ Iterate \/ Return

SettleSpec == SettleInit /\ [][SettleNext]_vars

(***************************************************************************)
(* The session: Ledger calls, then the settlement of the balances          *)
(***************************************************************************)
\* dict.items() of the dict balances(all_players) built, in insertion order
Items(bal, all_players) ==
    [k \in 1 .. Len(all_players) |-> <<all_players[k], bal[all_players[k]]>>]

\* AllInBank.py lines 396-431: bals = ledger.balances(all_names), then
\* transfers = min_cash_flow_settlement(bals)
Settle ==
    /\ pc = "idle"
    /\ lastCall.op = "balances"
    /\ balances' = Items(ret[1], lastCall.roster)
    /\ pc' = "start"
    /\ UNCHANGED <<debtors, creditors, i, j, transfers, ledgerVars>>

\* calls are synchronous: no Ledger call runs while the resolver does
AppNext ==
    \/ pc = "idle" /\ \E player \in Players, amount \in Amounts : add_buyin(player, amount)
    \/ pc = "idle" /\ \E player \in Players, amount \in Amounts : set_cashout(player, amount)
    \/ pc = "idle" /\ \E player \in Players, amount \in Amounts : add_cashout(player, amount)
    \/ pc = "idle" /\ total_buyin
    \/ pc = "idle" /\ total_cashout
    \/ pc = "idle" /\ \E all_players \in Rosters : Ledger_balances(all_players)
    \/ Settle
    \/ SettleNext

AppSpec == LedgerInit /\ [][AppNext]_vars

(***************************************************************************)
(* What a transfer list does to the input mapping                          *)
(***************************************************************************)
Max(a, b) == IF a >= b THEN a ELSE b

InputNames == {balances[k][1] : k \in 1 .. Len(balances)}

\* balances[n]; a name that is no key has no balance to settle
Net(n) ==
    IF n \in InputNames
    THEN LET k == CHOOSE m \in 1 .. Len(balances) : balances[m][1] = n IN balances[k][2]
    ELSE 0

InputIndex(n) == CHOOSE m \in 1 .. Len(balances) : balances[m][1] = n

InputSum == SumOver([n \in Names |-> Net(n)], Names)

InputDebtors == {n \in InputNames : Net(n) < 0}
InputCreditors == {n \in InputNames : Net(n) > 0}

\* what n pays, and receives, in the first k transfers
PaidIn(n, k) ==
    SumSeq([t \in 1 .. k |-> IF transfers[t][1] = n THEN transfers[t][3] ELSE 0])

ReceivedIn(n, k) ==
    SumSeq([t \in 1 .. k |-> IF transfers[t][2] = n THEN transfers[t][3] ELSE 0])

Paid(n) == PaidIn(n, Len(transfers))
Received(n) == ReceivedIn(n, Len(transfers))

\* n's balance once every transfer is applied
Residual(n) == Net(n) + Paid(n) - Received(n)

\* the iteration at the cursors emits nothing and moves no cursor, whatever
\* round() returns: the loop runs it again, for ever
Stuck ==
    /\ pc = "loop"
    /\ LoopCond
    /\ debtors[i + 1][2] < 0
    /\ creditors[j + 1][2] > 0
    /\ \A pay \in PayChoices(debtors[i + 1][2], creditors[j + 1][2]) : ~Emits(pay)

(***************************************************************************)
(* Claims about min_cash_flow_settlement, under SettleSpec                 *)
(***************************************************************************)
\* C1: when the input balances sum to zero, the returned transfers leave
\* every participant's residual balance at zero.
C1_FullSettlement ==
    (pc = "done" /\ InputSum = 0) => \A n \in Names : Residual(n) = 0

\* C2: a creditor never receives more than the original credit and a debtor
\* never pays more than the original debt.
C2_Conservation ==
    \A n \in Names :
        /\ Received(n) <= Max(Net(n), 0)
        /\ Paid(n) <= Max(-Net(n), 0)

\* C3: the pairing loop never reaches an iteration that it repeats for ever
\* (one that emits nothing and advances neither cursor), so it returns.
C3_NeverStuck == ~Stuck

\* C6: with at least one debtor and one creditor, there are at most
\* debtor_count + creditor_count - 1 transfers.
C6_TransferCount ==
    (InputDebtors /= {} /\ InputCreditors /= {}) =>
        Len(transfers) <= Cardinality(InputDebtors) + Cardinality(InputCreditors) - 1

\* C7: every transfer has a positive amount that is a whole number of
\* hundredths, from a participant whose input balance is negative to a
\* different participant whose input balance is positive.
C7_TransfersWellFormed ==
    \A k \in 1 .. Len(transfers) :
        /\ transfers[k][3] > 0
        /\ transfers[k][3] % UnitsPerCent = 0
        /\ transfers[k][1] \in InputNames /\ Net(transfers[k][1]) < 0
        /\ transfers[k][2] \in InputNames /\ Net(transfers[k][2]) > 0
        /\ transfers[k][1] /= transfers[k][2]

\* a returned list of two transfers for a mapping that also holds a zero balance
C7_Witness ==
    /\ pc = "done"
    /\ Len(transfers) >= 2
    /\ \E n \in InputNames : Net(n) = 0

\* the order of line 71, from the input alone: most negative first, equal
\* balances in the mapping's iteration order
DebtorPrecedes(n, m) ==
    \/ Net(n) < Net(m)
    \/ Net(n) = Net(m) /\ InputIndex(n) < InputIndex(m)

\* the order of line 72: largest first, equal balances in iteration order
CreditorPrecedes(n, m) ==
    \/ Net(n) > Net(m)
    \/ Net(n) = Net(m) /\ InputIndex(n) < InputIndex(m)

\* the participants still owing, and still owed, after the first k transfers
OpenDebtors(k) == {n \in InputDebtors : Net(n) + PaidIn(n, k) < 0}
OpenCreditors(k) == {n \in InputCreditors : Net(n) - ReceivedIn(n, k) > 0}

FirstDebtor(S) == CHOOSE n \in S : \A m \in S \ {n} : DebtorPrecedes(n, m)
FirstCreditor(S) == CHOOSE n \in S : \A m \in S \ {n} : CreditorPrecedes(n, m)

\* transfer k pairs the first open debtor with the first open creditor and
\* moves the rounded smaller of what the two still owe and are owed
GreedyStep(k) ==
    /\ OpenDebtors(k - 1) /= {}
    /\ OpenCreditors(k - 1) /= {}
    /\ LET d == FirstDebtor(OpenDebtors(k - 1))
           c == FirstCreditor(OpenCreditors(k - 1))
       IN  /\ transfers[k][1] = d
           /\ transfers[k][2] = c
           /\ transfers[k][3] \in
                  Round2(Min(-(Net(d) + PaidIn(d, k - 1)), Net(c) - ReceivedIn(c, k - 1)))

Scenario == <<<<"A", Whole(-10)>>, <<"B", Whole(-5)>>, <<"C", Whole(15)>>>>

\* C8: the transfers are the sorted greedy pairing of the input (debtors most
\* negative first, creditors largest first, equal balances in input order,
\* no re-sorting), the returned list leaves no debtor or no creditor open,
\* and {A: -10, B: -5, C: 15} gives [(A, C, 10), (B, C, 5)].
C8_SortedGreedyPairing ==
    /\ \A k \in 1 .. Len(transfers) : GreedyStep(k)
    /\ pc = "done" =>
           (OpenDebtors(Len(transfers)) = {} \/ OpenCreditors(Len(transfers)) = {})
    /\ (pc = "done" /\ balances = Scenario) =>
           transfers = <<<<"A", "C", Whole(10)>>, <<"B", "C", Whole(5)>>>>

\* two debtors with equal balances, B before A in the mapping, paid in that order
C8_Witness ==
    /\ pc = "done"
    /\ Len(transfers) = 2
    /\ Net("A") = Net("B")
    /\ InputDebtors = {"A", "B"}
    /\ InputIndex("B") < InputIndex("A")
    /\ transfers[1][1] = "B"
    /\ transfers[2][1] = "A"

\* C9: with no debtor or no creditor in the mapping (the empty mapping and
\* the all-zero mapping among them) the loop body is never entered and the
\* result is the empty list.
C9_EmptyResult ==
    (InputDebtors = {} \/ InputCreditors = {}) =>
        /\ transfers = <<>>
        /\ pc = "loop" => ENABLED Return

\* a call that returned for a mapping with debtors, a zero balance and no creditor
C9_Witness ==
    /\ pc = "done"
    /\ InputDebtors /= {}
    /\ InputCreditors = {}
    /\ \E n \in InputNames : Net(n) = 0
    /\ transfers = <<>>

(***************************************************************************)
(* Claims about the Ledger, under LedgerSpec                               *)
(***************************************************************************)
RosterNames == {lastCall.roster[k] : k \in 1 .. Len(lastCall.roster)}

\* C4: balances(roster) returns a mapping whose keys are exactly the roster's
\* names, each with cashout minus buyin rounded to 2 decimals, a name absent
\* from a mapping counting as 0 there.
C4_BalancesCoverRoster ==
    lastCall.op = "balances" =>
        /\ DOMAIN ret[1] = RosterNames
        /\ \A n \in RosterNames :
               ret[1][n] \in Round2((IF n \in DOMAIN cashouts THEN cashouts[n] ELSE 0)
                                    - (IF n \in DOMAIN buyins THEN buyins[n] ELSE 0))

\* balances(["C", "B"]) on a ledger that knows A and B but not C
C4_Witness ==
    /\ lastCall.op = "balances"
    /\ lastCall.roster = <<"C", "B">>
    /\ "A" \in DOMAIN buyins
    /\ "B" \in DOMAIN cashouts
    /\ "B" \notin DOMAIN buyins
    /\ ret[1]["C"] = 0
    /\ ret[1]["B"] /= 0

\* C5: total_buyin() is the sum of all amounts passed to add_buyin, whatever
\* the names and the order, and cash-out calls do not change it.
C5_TotalBuyinIsSum ==
    /\ SumOver(buyins, DOMAIN buyins) = recorded
    /\ lastCall.op = "total_buyin" => ret = <<recorded>>
    /\ lastCall.op \in {"set_cashout", "add_cashout"} =>
           SumOver(buyins, DOMAIN buyins) = SumOver(pre[1], DOMAIN pre[1])

\* total_buyin() after two buy-ins of A (2 and 5) and a cash-out
C5_Witness ==
    /\ lastCall.op = "total_buyin"
    /\ buyins = [n \in {"A"} |-> 7]
    /\ cashouts /= <<>>
    /\ ret = <<7>>

\* C10: cashouts[name] is the amount of the latest set_cashout for the name
\* plus the add_cashout amounts since (all of them if there was no
\* set_cashout); the name has no entry until one of the two is called.
C10_CashoutIsLastSetPlusAdds ==
    \A n \in Names :
        IF lastSet[n] = <<>> /\ addedSince[n] = <<>>
        THEN n \notin DOMAIN cashouts
        ELSE /\ n \in DOMAIN cashouts
             /\ cashouts[n] =
                    (IF lastSet[n] = <<>> THEN 0 ELSE lastSet[n][1]) + SumSeq(addedSince[n])

\* three cash-out calls for A: an earlier one, replaced by set_cashout(A, 2),
\* then add_cashout(A, 5)
C10_Witness ==
    /\ lastCall.op = "add_cashout"
    /\ lastCall.player = "A"
    /\ nOps = 3
    /\ buyins = <<>>
    /\ DOMAIN cashouts = {"A"}
    /\ lastSet["A"] = <<2>>
    /\ addedSince["A"] = <<5>>
    /\ cashouts["A"] = 7

(***************************************************************************)
(* Claims about what the calls leave alone, under AppSpec                  *)
(***************************************************************************)
\* mapping now is mapping before, but for the entry of player
OnlyEntryChanged(before, now, player) ==
    /\ DOMAIN now = DOMAIN before \cup {player}
    /\ \A n \in DOMAIN before \ {player} : now[n] = before[n]

\* C11: add_buyin changes only buyins[name]; set_cashout and add_cashout
\* change only cashouts[name]; total_buyin, total_cashout and balances change
\* neither mapping; the resolver changes neither mapping nor its input.
C11_Frame ==
    /\ lastCall.op = "add_buyin" =>
           cashouts = pre[2] /\ OnlyEntryChanged(pre[1], buyins, lastCall.player)
    /\ lastCall.op \in {"set_cashout", "add_cashout"} =>
           buyins = pre[1] /\ OnlyEntryChanged(pre[2], cashouts, lastCall.player)
    /\ lastCall.op \in {"total_buyin", "total_cashout", "balances"} =>
           buyins = pre[1] /\ cashouts = pre[2]
    /\ pc /= "idle" =>
           /\ buyins = pre[1]
           /\ cashouts = pre[2]
           /\ Len(balances) = Len(lastCall.roster)
           /\ \A k \in 1 .. Len(balances) :
                  balances[k] = <<lastCall.roster[k], ret[1][lastCall.roster[k]]>>

\* the resolver returned transfers for the balances of a ledger that holds
\* buy-ins of both players
C11_Witness ==
    /\ pc = "done"
    /\ transfers /= <<>>
    /\ DOMAIN buyins = {"A", "B"}
    /\ cashouts /= <<>>

(***************************************************************************)
(* Claims about a Ledger that is passed non-negative amounts, NonNegSpec   *)
(***************************************************************************)
\* C12: with non-negative amounts only, every value of buyins and cashouts is
\* non-negative, no buy-in value ever decreases, no entry is ever removed,
\* and a cash-out value decreases only for the player of a set_cashout.
C12_NonNegativeAndGrowing ==
    /\ \A n \in DOMAIN buyins : buyins[n] >= 0
    /\ \A n \in DOMAIN cashouts : cashouts[n] >= 0
    /\ \A n \in DOMAIN pre[1] : n \in DOMAIN buyins /\ buyins[n] >= pre[1][n]
    /\ \A n \in DOMAIN pre[2] :
           /\ n \in DOMAIN cashouts
           /\ cashouts[n] < pre[2][n] =>
                  lastCall.op = "set_cashout" /\ lastCall.player = n

\* set_cashout lowered a cash-out of a ledger that also holds a buy-in
C12_Witness ==
    /\ lastCall.op = "set_cashout"
    /\ lastCall.player \in DOMAIN pre[2]
    /\ cashouts[lastCall.player] < pre[2][lastCall.player]
    /\ buyins /= <<>>

(***************************************************************************)
(* Claims about balances that are whole hundredths, under SettleSpec       *)
(***************************************************************************)
AllHundredths == \A k \in 1 .. Len(balances) : balances[k][2] % UnitsPerCent = 0

TotalDebt == SumOver([n \in Names |-> IF Net(n) < 0 THEN -Net(n) ELSE 0], Names)
TotalCredit == SumOver([n \in Names |-> IF Net(n) > 0 THEN Net(n) ELSE 0], Names)

TotalTransferred == SumSeq([k \in 1 .. Len(transfers) |-> transfers[k][3]])

\* C13: for balances that are whole hundredths, summing to zero or not, the
\* call returns, the transfers total min(total debt, total credit), and what
\* is left unsettled is on the larger side only: the smaller side's
\* residuals are all zero and no one on the larger side is overpaid.
C13_SettlesSmallerSide ==
    AllHundredths =>
        /\ ~Stuck
        /\ pc = "done" =>
               /\ TotalTransferred = (IF TotalDebt <= TotalCredit THEN TotalDebt ELSE TotalCredit)
               /\ TotalDebt <= TotalCredit =>
                      /\ \A n \in InputDebtors : Residual(n) = 0
                      /\ \A n \in InputCreditors : Residual(n) >= 0
               /\ TotalCredit <= TotalDebt =>
                      /\ \A n \in InputCreditors : Residual(n) = 0
                      /\ \A n \in InputDebtors : Residual(n) <= 0

\* two transfers returned for hundredths that do not sum to zero, with a
\* residue left
C13_Witness ==
    /\ pc = "done"
    /\ AllHundredths
    /\ InputSum /= 0
    /\ Len(transfers) = 2
    /\ \E n \in InputNames : Residual(n) /= 0

====
